---- MODULE Spec2Model ----
(***************************************************************************)
(* State-machine model of the XDP loader (xdp_loader, map pinning with     *)
(* reuse) and of the XDP statistics reporter (xdp_stats.c) of lesson       *)
(* basic04-pinning-maps.  Both are single-threaded processes that meet     *)
(* only at the pinned map  /sys/fs/bpf/<dev>/xdp_stats_map.                *)
(***************************************************************************)
EXTENDS Integers, Sequences, FiniteSets, Bags, TLC

(* ------------------------------ bounds --------------------------------- *)
\* number of loader processes started on the device
NumLoaders == 3
\* number of loader runs in the specifications that run fewer of them:
\* the runs that follow one another next to the reporter, and the pair of
\* concurrent runs
SeqRuns == 2
\* number of outcome keys of the statistics table (the program uses 5)
XDP_ACTION_MAX == 2
\* packets the kernel program counts in one behaviour
MaxPkts == 1
\* last value of the monotonic clock
MaxClock == 1
\* libbpf_num_possible_cpus()
NrCpus == 2
\* open descriptors of one map that are told apart; more count as this many
MaxHandles == 2
\* longest period, in seconds, between the two snapshots given to stats_print
MaxPeriod == 2

Loaders == 1..NumLoaders
SeqLoaders == 1..SeqRuns
Keys == 0..(XDP_ACTION_MAX - 1)
Cpus == 1..NrCpus

(* ------------------------- the objects loaded -------------------------- *)
\* length of every counted packet, in bytes
PktLen == 60

\* The ELF object named by --filename: whether it declares xdp_stats_map,
\* and the type and shape of that map.
ObjArray ==
    [hasMap |-> TRUE, type |-> "ARRAY", key_size |-> 4, value_size |-> 16,
     max_entries |-> XDP_ACTION_MAX]

\* the same program with a per-CPU statistics map
ObjPercpu ==
    [hasMap |-> TRUE, type |-> "PERCPU_ARRAY", key_size |-> 4,
     value_size |-> 16, max_entries |-> XDP_ACTION_MAX]

\* an object built with another struct datarec (packets only)
ObjOldRec ==
    [hasMap |-> TRUE, type |-> "ARRAY", key_size |-> 4, value_size |-> 8,
     max_entries |-> XDP_ACTION_MAX]

\* an object that does not declare xdp_stats_map
ObjNoMap ==
    [hasMap |-> FALSE, type |-> "ARRAY", key_size |-> 4, value_size |-> 16,
     max_entries |-> XDP_ACTION_MAX]

Objects == {ObjArray, ObjPercpu, ObjOldRec, ObjNoMap}

\* struct datarec
ZeroRec == [rx_packets |-> 0, rx_bytes |-> 0]

\* a map as the kernel creates it when the object is loaded
NewTable(obj) ==
    [type |-> obj.type, key_size |-> obj.key_size,
     value_size |-> obj.value_size, max_entries |-> obj.max_entries,
     val |-> [k \in Keys |-> [c \in Cpus |-> ZeroRec]]]

(* ------------------------------- state --------------------------------- *)
VARIABLES
    tables,     \* the maps created so far; a map's id is its index
    pinPath,    \* id of the map pinned at <base>/<dev>/xdp_stats_map, 0: none
    attached,   \* per loader: -1, or the map its attached program counts
                \* into (0: the program has no xdp_stats_map)
    now,        \* CLOCK_MONOTONIC
    counted,    \* packets counted so far by the attached programs
    ld,         \* per loader process: position and locals
    rp          \* the reporter process: position and locals

vars == <<tables, pinPath, attached, now, counted, ld, rp>>
shared == <<tables, pinPath, attached>>

\* struct record, with the id of the map the slot was last collected from
ZeroSlot == [timestamp |-> 0, total |-> ZeroRec, gen |-> 0]

\* nothing printed yet
NoReport == [header |-> FALSE, rows |-> << >>]

\* main and stats_poll_map_reload before their first statement:
\* info = { 0 }, record = { 0 }
ReporterInit ==
    [pc |-> "start", map_fd |-> 0, fds |-> EmptyBag, info |-> 0, map_id |-> 0,
     map_id_prev |-> 0, map_type |-> "UNSPEC", key |-> 0,
     record |-> [k \in Keys |-> ZeroSlot], prev |-> [k \in Keys |-> ZeroSlot],
     reloaded |-> FALSE, out |-> NoReport, exit |-> "running"]

\* a loader process before main runs: map_reused = 0
LoaderInit ==
    [pc |-> "start", obj |-> ObjArray, map_reused |-> FALSE, map |-> 0,
     found |-> FALSE, opened |-> FALSE, pinned |-> FALSE, err |-> "none",
     ret |-> "none", exit |-> "running"]

Init ==
    /\ tables = << >>
    /\ pinPath = 0
    /\ attached = [p \in Loaders |-> -1]
    /\ now = 0
    /\ counted = 0
    /\ ld = [p \in Loaders |-> LoaderInit]
    /\ rp = ReporterInit

(* ------------------------------ loader --------------------------------- *)
\* the error path of load_bpf_and_xdp_attach_with_reuse and of main
LoaderFail(l, why) ==
    [l EXCEPT !.pc = "returned", !.err = why, !.ret = "NULL"]

\* xdp_program__create: the object is opened, nothing is loaded yet
L_Create(p) ==
    /\ ld[p].pc = "start"
    /\ \E o \in Objects, ok \in BOOLEAN :
         ld' = [ld EXCEPT ![p] =
                  IF ok THEN [@ EXCEPT !.pc = "reuse", !.obj = o]
                        ELSE LoaderFail(@, "create")]
    /\ UNCHANGED <<tables, pinPath, attached, now, counted, rp>>

\* variant: a pin that is found is removed before the attach
L_ReuseAccess_Unpin(p) ==
    /\ ld[p].pc = "reuse"
    /\ ld' = [ld EXCEPT ![p] = [@ EXCEPT !.pc = "attach",
                                         !.found = (pinPath # 0)]]
    /\ pinPath' = 0
    /\ UNCHANGED <<tables, attached, now, counted, rp>>

\* reuse_pinned_map, the access(pin_path, F_OK) test
L_ReuseAccess(p) ==
    /\ ld[p].pc = "reuse"
    /\ ld' = [ld EXCEPT ![p] =
                IF pinPath = 0
                THEN [@ EXCEPT !.pc = "attach"]
                ELSE [@ EXCEPT !.pc = "reuse_open", !.found = TRUE]]
    /\ UNCHANGED <<tables, pinPath, attached, now, counted, rp>>

\* variant: a pinned map that cannot be opened is a fatal error
ReuseOpen_OpenFatal(l, path, openOk, reuseOk) ==
    IF path = 0 \/ ~openOk
    THEN LoaderFail(l, "reuse_fd")
    ELSE IF ~l.obj.hasMap
    THEN LoaderFail([l EXCEPT !.opened = TRUE], "find_map")
    ELSE IF ~reuseOk
    THEN LoaderFail([l EXCEPT !.opened = TRUE], "reuse_fd")
    ELSE [l EXCEPT !.pc = "attach", !.opened = TRUE, !.map_reused = TRUE,
                   !.map = path]

\* variant: the caller never learns that the map was reused
ReuseOpen_NoFlag(l, path, openOk, reuseOk) ==
    IF path = 0 \/ ~openOk
    THEN [l EXCEPT !.pc = "attach"]
    ELSE IF ~l.obj.hasMap
    THEN LoaderFail([l EXCEPT !.opened = TRUE], "find_map")
    ELSE IF ~reuseOk
    THEN LoaderFail([l EXCEPT !.opened = TRUE], "reuse_fd")
    ELSE [l EXCEPT !.pc = "attach", !.opened = TRUE, !.map = path]

\* reuse_pinned_map from bpf_obj_get on: open, find the map, swap its fd
ReuseOpen(l, path, openOk, reuseOk) ==
    IF path = 0 \/ ~openOk
    THEN [l EXCEPT !.pc = "attach"]
    ELSE IF ~l.obj.hasMap
    THEN LoaderFail([l EXCEPT !.opened = TRUE], "find_map")
    ELSE IF ~reuseOk
    THEN LoaderFail([l EXCEPT !.opened = TRUE], "reuse_fd")
    ELSE [l EXCEPT !.pc = "attach", !.opened = TRUE, !.map_reused = TRUE,
                   !.map = path]

L_ReuseOpen(p) ==
    /\ ld[p].pc = "reuse_open"
    /\ \E openOk \in BOOLEAN, reuseOk \in BOOLEAN :
         ld' = [ld EXCEPT ![p] = ReuseOpen(@, pinPath, openOk, reuseOk)]
    /\ UNCHANGED <<tables, pinPath, attached, now, counted, rp>>

\* variant: the maps are pinned after every attach
AfterAttach_AlwaysPin(l) == [l EXCEPT !.pc = "pin_access"]

\* after a successful attach: pin only when the map was not reused
AfterAttach(l) ==
    IF ~l.map_reused
    THEN [l EXCEPT !.pc = "pin_access"]
    ELSE [l EXCEPT !.pc = "returned", !.ret = "program"]

\* xdp_program__attach: loads the object, which creates its maps unless
\* their fd was set by bpf_map__reuse_fd, and attaches the program
L_Attach(p) ==
    /\ ld[p].pc = "attach"
    /\ \E ok \in BOOLEAN :
         IF ~ok
         THEN /\ ld' = [ld EXCEPT ![p] = LoaderFail(@, "attach")]
              /\ UNCHANGED <<tables, attached>>
         ELSE IF ld[p].obj.hasMap /\ ~ld[p].map_reused
         THEN /\ tables' = Append(tables, NewTable(ld[p].obj))
              /\ attached' = [attached EXCEPT ![p] = Len(tables) + 1]
              /\ ld' = [ld EXCEPT ![p] =
                          AfterAttach([@ EXCEPT !.map = Len(tables) + 1])]
         ELSE /\ tables' = tables
              /\ attached' = [attached EXCEPT ![p] = ld[p].map]
              /\ ld' = [ld EXCEPT ![p] = AfterAttach(@)]
    /\ UNCHANGED <<pinPath, now, counted, rp>>

\* variant: a pin error takes the error path of the caller
PinReturn_Fatal(l, why) ==
    [l EXCEPT !.pc = "returned", !.err = why, !.pinned = (why = "none"),
              !.ret = IF why = "none" THEN "program" ELSE "NULL"]

\* the return of pin_maps_in_bpf_object into its caller: a pin error is
\* printed and the program is returned all the same
PinReturn(l, why) ==
    [l EXCEPT !.pc = "returned", !.err = why, !.pinned = (why = "none"),
              !.ret = "program"]

\* pin_maps_in_bpf_object, the access(map_filename, F_OK) test
L_PinAccess(p) ==
    /\ ld[p].pc = "pin_access"
    /\ ld' = [ld EXCEPT ![p] =
                [@ EXCEPT !.pc = IF pinPath # 0 THEN "unpin" ELSE "pin"]]
    /\ UNCHANGED <<tables, pinPath, attached, now, counted, rp>>

\* bpf_object__unpin_maps: unlink(2) of the pin of every map of the object
L_Unpin(p) ==
    /\ ld[p].pc = "unpin"
    /\ \E ok \in BOOLEAN :
         IF ~ld[p].obj.hasMap
         THEN /\ ld' = [ld EXCEPT ![p] = [@ EXCEPT !.pc = "pin"]]
              /\ pinPath' = pinPath
         ELSE IF pinPath = 0 \/ ~ok
         THEN /\ ld' = [ld EXCEPT ![p] = PinReturn(@, "unpin")]
              /\ pinPath' = pinPath
         ELSE /\ ld' = [ld EXCEPT ![p] = [@ EXCEPT !.pc = "pin"]]
              /\ pinPath' = 0
    /\ UNCHANGED <<tables, attached, now, counted, rp>>

\* bpf_object__pin_maps: bpf_obj_pin of every map of the object
L_Pin(p) ==
    /\ ld[p].pc = "pin"
    /\ \E ok \in BOOLEAN :
         IF ~ld[p].obj.hasMap
         THEN /\ ld' = [ld EXCEPT ![p] = PinReturn(@, "none")]
              /\ pinPath' = pinPath
         ELSE IF pinPath # 0 \/ ~ok
         THEN /\ ld' = [ld EXCEPT ![p] = PinReturn(@, "pin")]
              /\ pinPath' = pinPath
         ELSE /\ ld' = [ld EXCEPT ![p] = PinReturn(@, "none")]
              /\ pinPath' = ld[p].map
    /\ UNCHANGED <<tables, attached, now, counted, rp>>

\* main after load_bpf_and_xdp_attach_with_reuse: the exit code; the
\* process and its locals are gone, the attachment and the pin stay
MainReturn(l) ==
    [LoaderInit EXCEPT !.pc = "exited",
       !.exit = IF l.ret = "NULL" THEN "EXIT_FAIL_BPF" ELSE "EXIT_OK"]

L_Exit(p) ==
    /\ ld[p].pc = "returned"
    /\ ld' = [ld EXCEPT ![p] = MainReturn(@)]
    /\ UNCHANGED <<tables, pinPath, attached, now, counted, rp>>

LoaderStep(p) ==
    \/ L_Create(p)
    \/ L_ReuseAccess(p)
    \/ L_ReuseOpen(p)
    \/ L_Attach(p)
    \/ L_PinAccess(p)
    \/ L_Unpin(p)
    \/ L_Pin(p)
    \/ L_Exit(p)


(* ----------------------------- reporter -------------------------------- *)
\* map_expect as main fills it
MapExpect == [key_size |-> 4, value_size |-> 16, max_entries |-> XDP_ACTION_MAX]

\* check_map_fd_info: 0 when key size, value size and entry count match
CheckMapFdInfo(t, exp) ==
    IF /\ t.key_size = exp.key_size
       /\ t.value_size = exp.value_size
       /\ t.max_entries = exp.max_entries
    THEN "EXIT_OK" ELSE "EXIT_FAIL"

\* open_check_bpf_map_file on the pin path: the new *map_fd (0: negative),
\* the id in *info, and the return value
OpenCheck(r, path) ==
    IF path = 0
    THEN [map_fd |-> 0, info |-> r.info, err |-> "EXIT_FAIL_BPF"]
    ELSE [map_fd |-> path, info |-> path,
          err |-> CheckMapFdInfo(tables[path], MapExpect)]

\* the handles the process holds after open_check_bpf_map_file
Opened(r, oc) ==
    IF oc.map_fd = 0 THEN r.fds
    ELSE IF CopiesIn(oc.map_fd, r.fds) < MaxHandles
    THEN r.fds (+) SetToBag({oc.map_fd})
    ELSE r.fds

\* entry of stats_poll_map_reload up to the first stats_collect
PollEntry(r, oc) ==
    [r EXCEPT !.map_fd = oc.map_fd, !.fds = Opened(r, oc), !.info = oc.info,
              !.map_id = oc.info, !.map_type = tables[oc.info].type,
              !.pc = "collect_init", !.key = 0]

\* variant: main goes on with any map it could open
MainOpen_IgnoreCheck(r, oc) ==
    IF oc.map_fd = 0
    THEN [r EXCEPT !.pc = "exited", !.exit = oc.err]
    ELSE PollEntry(r, oc)

\* main: open and check the pinned map, leave on any error
MainOpen(r, oc) ==
    IF oc.err # "EXIT_OK"
    THEN [r EXCEPT !.map_fd = oc.map_fd, !.fds = Opened(r, oc),
                   !.info = oc.info, !.pc = "exited", !.exit = oc.err]
    ELSE PollEntry(r, oc)

R_Start ==
    /\ rp.pc = "start"
    /\ rp' = MainOpen(rp, OpenCheck(rp, pinPath))
    /\ UNCHANGED <<tables, pinPath, attached, now, counted, ld>>

\* what an uninitialised struct datarec on the stack may hold
JunkRec == [rx_packets |-> 7, rx_bytes |-> 7]
Indeterminate == {ZeroRec, JunkRec}

\* bpf_map_lookup_elem on an array map: the one copy of the value
LookupArray(t, key) == t.val[key][1]

\* map_get_value_percpu_array: the sum of the copies of all CPUs
LookupPercpu(t, key) ==
    LET Sum[c \in 0..NrCpus] ==
          IF c = 0 THEN ZeroRec
          ELSE [rx_packets |-> Sum[c - 1].rx_packets + t.val[key][c].rx_packets,
                rx_bytes |-> Sum[c - 1].rx_bytes + t.val[key][c].rx_bytes]
    IN Sum[NrCpus]

\* map_get_value_array: a failed lookup leaves the caller's value untouched,
\* and the caller's value is an uninitialised local
MapGetValueArray(t, key, ok, junk) ==
    IF ok THEN LookupArray(t, key) ELSE junk

MapGetValuePercpuArray(t, key, ok, junk) ==
    IF ok THEN LookupPercpu(t, key) ELSE junk

\* variant: the value looked up is added to the counts of the record
MapCollect_Accumulate(rec, fd, map_type, key, ok, junk) ==
    LET stamped == [rec EXCEPT !.timestamp = now, !.gen = fd]
        Plus(a, b) == [rx_packets |-> a.rx_packets + b.rx_packets,
                       rx_bytes |-> a.rx_bytes + b.rx_bytes]
    IN CASE map_type = "ARRAY" ->
              [stamped EXCEPT !.total =
                 Plus(@, MapGetValueArray(tables[fd], key, ok, junk))]
         [] map_type = "PERCPU_ARRAY" ->
              [stamped EXCEPT !.total =
                 Plus(@, MapGetValuePercpuArray(tables[fd], key, ok, junk))]
         [] OTHER -> stamped

\* map_collect: timestamp, lookup by map type, copy of the value
MapCollect(rec, fd, map_type, key, ok, junk) ==
    LET stamped == [rec EXCEPT !.timestamp = now, !.gen = fd]
    IN CASE map_type = "ARRAY" ->
              [stamped EXCEPT
                 !.total = MapGetValueArray(tables[fd], key, ok, junk)]
         [] map_type = "PERCPU_ARRAY" ->
              [stamped EXCEPT
                 !.total = MapGetValuePercpuArray(tables[fd], key, ok, junk)]
         [] OTHER -> stamped

\* variant: after the new baseline the loop starts over
AfterCollect_Continue(r) ==
    CASE r.pc = "collect_init" -> [r EXCEPT !.pc = "loop", !.key = 0]
      [] r.pc = "collect_reload" -> [r EXCEPT !.pc = "loop", !.key = 0]
      [] OTHER -> [r EXCEPT !.pc = "print", !.key = 0]

\* where the reporter goes on after the last key of a stats_collect
AfterCollect(r) ==
    CASE r.pc = "collect_init" -> [r EXCEPT !.pc = "loop", !.key = 0]
      [] r.pc = "collect_reload" ->
            [r EXCEPT !.pc = "collect", !.key = 0, !.prev = r.record]
      [] OTHER -> [r EXCEPT !.pc = "print", !.key = 0]

\* variant: the clock is read for the first key and that reading is the
\* timestamp of every record of the pass
CollectKey_OneStamp(r, ok, junk) ==
    LET rec == MapCollect(r.record[r.key], r.map_fd, r.map_type, r.key,
                          ok, junk)
        r1 == [r EXCEPT !.record[r.key] =
                 IF r.key = 0 THEN rec
                 ELSE [rec EXCEPT !.timestamp = r.record[0].timestamp],
                        !.key = r.key + 1]
    IN IF r1.key = XDP_ACTION_MAX THEN AfterCollect(r1) ELSE r1

\* one turn of the loop of stats_collect
CollectKey(r, ok, junk) ==
    LET r1 == [r EXCEPT !.record[r.key] =
                 MapCollect(@, r.map_fd, r.map_type, r.key, ok, junk),
                        !.key = r.key + 1]
    IN IF r1.key = XDP_ACTION_MAX THEN AfterCollect(r1) ELSE r1

R_CollectKey ==
    /\ rp.pc \in {"collect_init", "collect_reload", "collect"}
    /\ \E ok \in BOOLEAN, junk \in Indeterminate :
         rp' = CollectKey(rp, ok, junk)
    /\ UNCHANGED <<tables, pinPath, attached, now, counted, ld>>

\* top of the while (1): remember the id, close the previous fd
LoopTop(r) ==
    [r EXCEPT !.map_id_prev = r.map_id, !.fds = r.fds (-) SetToBag({r.map_fd}),
              !.reloaded = FALSE, !.pc = "open"]

\* variant: the reporter removes the pin of the map it closes
R_LoopTop_Unpin ==
    /\ rp.pc = "loop"
    /\ rp' = LoopTop(rp)
    /\ pinPath' = 0
    /\ UNCHANGED <<tables, attached, now, counted, ld>>

R_LoopTop ==
    /\ rp.pc = "loop"
    /\ rp' = LoopTop(rp)
    /\ UNCHANGED <<tables, pinPath, attached, now, counted, ld>>

\* variant: a failed open ends the reporter
OpenFailed_Exit(r, oc) ==
    [r EXCEPT !.map_fd = oc.map_fd, !.fds = Opened(r, oc), !.info = oc.info,
              !.pc = "exited", !.exit = oc.err]

\* a failed open_check_bpf_map_file inside the loop
OpenFailed(r, oc) ==
    [r EXCEPT !.map_fd = oc.map_fd, !.fds = Opened(r, oc), !.info = oc.info,
              !.pc = "backoff"]

\* variant: a changed id ends the reporter, which has to be started again
Reopened_ExitOnChange(r, oc) ==
    LET r1 == [r EXCEPT !.map_fd = oc.map_fd, !.fds = Opened(r, oc),
                        !.info = oc.info, !.map_id = oc.info, !.key = 0]
    IN IF r1.map_id_prev # r1.map_id
       THEN [r1 EXCEPT !.fds = r1.fds (-) SetToBag({oc.map_fd}), !.pc = "exited",
                       !.exit = "EXIT_OK"]
       ELSE [r1 EXCEPT !.prev = r1.record, !.pc = "collect"]

\* variant: a changed id is noticed but no new baseline is taken
Reopened_NoBaseline(r, oc) ==
    LET r1 == [r EXCEPT !.map_fd = oc.map_fd, !.fds = Opened(r, oc),
                        !.info = oc.info, !.map_id = oc.info, !.key = 0]
    IN IF r1.map_id_prev # r1.map_id
       THEN [r1 EXCEPT !.map_id_prev = r1.map_id,
                       !.map_type = tables[oc.info].type,
                       !.reloaded = TRUE, !.prev = r1.record, !.pc = "collect"]
       ELSE [r1 EXCEPT !.prev = r1.record, !.pc = "collect"]

\* the statements after the retry loop, down to the stats_collect they reach
Reopened(r, oc) ==
    LET r1 == [r EXCEPT !.map_fd = oc.map_fd, !.fds = Opened(r, oc),
                        !.info = oc.info, !.map_id = oc.info, !.key = 0]
    IN IF r1.map_id_prev # r1.map_id
       THEN [r1 EXCEPT !.map_id_prev = r1.map_id,
                       !.map_type = tables[oc.info].type,
                       !.reloaded = TRUE, !.pc = "collect_reload"]
       ELSE [r1 EXCEPT !.prev = r1.record, !.pc = "collect"]

\* one evaluation of the condition of the retry loop
R_Open ==
    /\ rp.pc = "open"
    /\ LET oc == OpenCheck(rp, pinPath)
       IN rp' = IF oc.err # "EXIT_OK" THEN OpenFailed(rp, oc)
                                      ELSE Reopened(rp, oc)
    /\ UNCHANGED <<tables, pinPath, attached, now, counted, ld>>

\* body of the retry loop: "map still reloading", usleep
R_Backoff ==
    /\ rp.pc = "backoff"
    /\ rp' = [rp EXCEPT !.pc = "open"]
    /\ UNCHANGED <<tables, pinPath, attached, now, counted, ld>>

\* calc_period, in clock ticks
CalcPeriod(r, p) ==
    LET period == r.timestamp - p.timestamp
    IN IF period > 0 THEN period ELSE 0

\* the number of values of a __u64: 2^64 in the program, scaled down to
\* the integers of the model checker
U64 == 2^12

\* subtraction and multiplication of __u64
Sub64(a, b) == (a - b + U64) % U64
Mul64(a, b) == (a * b) % U64

RECURSIVE Gcd(_, _)
Gcd(a, b) == IF b = 0 THEN a ELSE Gcd(b, a % b)

\* the double n / d, kept as a fraction in lowest terms
Quot(n, d) ==
    IF d = 0 THEN [num |-> n, den |-> 0]
    ELSE [num |-> n \div Gcd(n, d), den |-> d \div Gcd(n, d)]

\* variant: the bit rate is left in bits per second
StatsRow_BitsPerSec(i, rec, prv, period) ==
    LET packets == Sub64(rec.total.rx_packets, prv.total.rx_packets)
        bytes == Sub64(rec.total.rx_bytes, prv.total.rx_bytes)
    IN [key |-> i,
        pkts |-> rec.total.rx_packets,
        pps |-> Quot(packets, period),
        kbytes |-> rec.total.rx_bytes \div 1000,
        bps |-> Quot(Mul64(bytes, 8), period),
        period |-> period]

\* the body of the loop of stats_print once the period is known: the
\* deltas, the rates and the row that printf writes
StatsRow(i, rec, prv, period) ==
    LET packets == Sub64(rec.total.rx_packets, prv.total.rx_packets)
        bytes == Sub64(rec.total.rx_bytes, prv.total.rx_bytes)
    IN [key |-> i,
        pkts |-> rec.total.rx_packets,
        pps |-> Quot(packets, period),
        kbytes |-> rec.total.rx_bytes \div 1000,
        bps |-> Quot(Mul64(bytes, 8), period * 1000000),
        period |-> period]

\* variant: a key with a zero period is skipped and the loop goes on
StatsPrint_SkipKey(rec, prv) ==
    LET Rows[i \in 0..XDP_ACTION_MAX] ==
          IF i = XDP_ACTION_MAX THEN << >>
          ELSE IF CalcPeriod(rec[i], prv[i]) = 0 THEN Rows[i + 1]
          ELSE <<StatsRow(i, rec[i], prv[i], CalcPeriod(rec[i], prv[i]))>>
               \o Rows[i + 1]
    IN [header |-> TRUE, rows |-> Rows[0]]

\* stats_print: the header, then a row per key up to the first zero period
StatsPrint(rec, prv) ==
    LET Rows[i \in 0..XDP_ACTION_MAX] ==
          IF i = XDP_ACTION_MAX THEN << >>
          ELSE IF CalcPeriod(rec[i], prv[i]) = 0 THEN << >>
          ELSE <<StatsRow(i, rec[i], prv[i], CalcPeriod(rec[i], prv[i]))>>
               \o Rows[i + 1]
    IN [header |-> TRUE, rows |-> Rows[0]]

\* stats_print and the sleep(interval) after it
R_Print ==
    /\ rp.pc = "print"
    /\ rp' = [rp EXCEPT !.out = StatsPrint(rp.record, rp.prev), !.pc = "loop"]
    /\ UNCHANGED <<tables, pinPath, attached, now, counted, ld>>

ReporterStep ==
    \/ R_Start
    \/ R_CollectKey
    \/ R_LoopTop
    \/ R_Open
    \/ R_Backoff
    \/ R_Print

(* ------------------------- kernel and clock ---------------------------- *)
\* the copies of a value the kernel program of a map type adds to
CountCpus(t) == IF t.type = "PERCPU_ARRAY" THEN Cpus ELSE {1}

\* the attached program of loader p records one packet under key k
K_Count(p, k) ==
    /\ attached[p] > 0
    /\ counted < MaxPkts
    /\ \E c \in CountCpus(tables[attached[p]]) :
         tables' = [tables EXCEPT ![attached[p]].val[k][c] =
                      [rx_packets |-> @.rx_packets + 1,
                       rx_bytes |-> @.rx_bytes + PktLen]]
    /\ counted' = counted + 1
    /\ UNCHANGED <<pinPath, attached, now, ld, rp>>

\* the monotonic clock advances
Tick ==
    /\ now < MaxClock
    /\ now' = now + 1
    /\ UNCHANGED <<tables, pinPath, attached, counted, ld, rp>>

(* ------------------------ properties: loader ---------------------------- *)
\* load_bpf_and_xdp_attach_with_reuse has returned the program
Succeeded(p) == ld[p].pc = "returned" /\ ld[p].ret = "program"

\* C1: an attach sequence that returns success without a pin failure has
\* either pinned the table itself or reused the pinned one, never both and
\* never neither.
C1_PinnedXorReused ==
    \A p \in Loaders :
        Succeeded(p) /\ ld[p].err = "none" =>
            (ld[p].pinned /\ ~ld[p].map_reused)
            \/ (~ld[p].pinned /\ ld[p].map_reused)

\* one loader has returned after pinning, another after reusing that pin
C1_Witness ==
    \E p, q \in Loaders :
        /\ Succeeded(p) /\ ld[p].err = "none" /\ ld[p].pinned
        /\ Succeeded(q) /\ ld[q].err = "none" /\ ld[q].map_reused
        /\ ld[q].map = ld[p].map

\* no system call of the run of p failed: what access() reported present
\* was opened, and nothing after it returned an error
NoFault(p) == ld[p].err = "none" /\ (ld[p].found => ld[p].opened)

\* C2: when loaders run concurrently and no call fails, they never both
\* create and pin a fresh table: no program that was attached successfully
\* counts into a table other than the one at the pin path.
C2_NoOrphanedCounters ==
    (\A p \in Loaders : Succeeded(p) /\ NoFault(p)) =>
        /\ Cardinality({p \in Loaders : ld[p].pinned /\ ld[p].obj.hasMap}) <= 1
        /\ \A p \in Loaders : attached[p] > 0 => attached[p] = pinPath

\* a fatal return (-1) of reuse_pinned_map
ReuseFatal(p) ==
    ld[p].pc = "returned" /\ ld[p].err \in {"find_map", "reuse_fd"}

\* C10 as claimed: reuse_pinned_map is fatal only when the program does not
\* declare the table.
C10_FatalOnlyMissingTable ==
    \A p \in Loaders : ReuseFatal(p) => ~ld[p].obj.hasMap

\* C10 as amended: an absent pin and a pin that cannot be opened mean "no
\* reuse" and the run goes on to attach; reuse_pinned_map is fatal only
\* once the pinned map is open, when the program does not declare the table
\* or when bpf_map__reuse_fd fails.
C10_FatalOnlyAfterOpen ==
    \A p \in Loaders :
        /\ ReuseFatal(p) => ld[p].found /\ ld[p].opened
        /\ ReuseFatal(p) /\ ld[p].err = "find_map" => ~ld[p].obj.hasMap
        /\ ReuseFatal(p) /\ ld[p].err = "reuse_fd" => ld[p].obj.hasMap
        /\ ld[p].pc \in {"reuse", "reuse_open"} => ~ld[p].opened
        /\ ld[p].pc = "attach" /\ ~ld[p].opened =>
              ~ld[p].map_reused /\ ld[p].err = "none"

\* a run opened the pinned map and died in bpf_map__reuse_fd although its
\* program declares the table
C10_Witness ==
    \E q \in Loaders :
        ReuseFatal(q) /\ ld[q].err = "reuse_fd" /\ ld[q].obj.hasMap /\ pinPath # 0

\* pin_maps_in_bpf_object of the run of p returned an error
PinFailed(p) == ld[p].pc = "returned" /\ ld[p].err \in {"unpin", "pin"}

\* C11: when the attach succeeded and the unpin of the stale entry or the
\* pin fails, load_bpf_and_xdp_attach_with_reuse still returns the program,
\* the program stays attached, and the loader exits with the success code.
C11_PinFailureNotFatal ==
    /\ [](\A p \in Loaders :
            PinFailed(p) =>
                /\ ld[p].ret = "program"
                /\ attached[p] > 0 /\ attached[p] = ld[p].map)
    /\ [][\A p \in Loaders :
            PinFailed(p) /\ ld'[p] # ld[p] =>
                /\ ld'[p].pc = "exited" /\ ld'[p].exit = "EXIT_OK"
                /\ attached'[p] = attached[p]]_vars

\* a run has returned from a failed pin with its program attached to a
\* table that is pinned nowhere
C11_Witness ==
    \E p \in Loaders :
        /\ PinFailed(p) /\ ld[p].err = "pin" /\ ld[p].ret = "program"
        /\ attached[p] > 0 /\ pinPath = 0

\* C13: when another process has removed the pin between the access()
\* test of a loader and its unpin, the unpin is a no-op and the loader goes
\* on to pin its map without an error.
C13_VanishedPinIsNoop ==
    [][\A p \in Loaders :
         ld[p].pc = "unpin" /\ pinPath = 0 /\ ld'[p] # ld[p] =>
             ld'[p].pc = "pin" /\ ld'[p].err = "none"]_vars

\* the place of a position in the attach sequence
PcRank(pc) ==
    CASE pc = "start" -> 0
      [] pc = "reuse" -> 1
      [] pc = "reuse_open" -> 2
      [] pc = "attach" -> 3
      [] pc = "pin_access" -> 4
      [] pc = "unpin" -> 5
      [] pc = "pin" -> 6
      [] pc = "returned" -> 7
      [] OTHER -> 8

\* the run of p is in pin_maps_in_bpf_object
Pinning(p) == ld[p].pc \in {"pin_access", "unpin", "pin"}

\* C19: an attach sequence goes from created over the optional reuse to
\* attached and then to the optional pin: the reuse is tried only before
\* the attach, the pin path is unpinned or pinned only after a successful
\* attach, and a sequence that fails in the create, the reuse or the
\* attach has not changed the pin path.
C19_AttachSequenceOrder ==
    /\ [](\A p \in Loaders :
            /\ ld[p].pc \in {"reuse", "reuse_open", "attach"}
                  => attached[p] = -1 /\ ~ld[p].pinned
            /\ Pinning(p) => attached[p] >= 0 /\ ~ld[p].map_reused
            /\ ld[p].pc = "returned" /\ ld[p].ret = "NULL"
                  => attached[p] = -1 /\ ~ld[p].pinned)
    /\ [][\A p \in Loaders :
            ld'[p] # ld[p] =>
                /\ PcRank(ld'[p].pc) > PcRank(ld[p].pc)
                /\ ld'[p].map_reused /\ ~ld[p].map_reused
                      => ld[p].pc = "reuse_open"
                /\ attached'[p] # attached[p] => ld[p].pc = "attach"
                /\ pinPath' # pinPath
                      => ld[p].pc \in {"unpin", "pin"} /\ attached[p] >= 0
                /\ ld'[p].ret = "NULL"
                      => /\ ld[p].pc \in {"start", "reuse_open", "attach"}
                         /\ pinPath' = pinPath]_vars

\* one run attached and pinned; another saw that pin, could not open it
\* and failed in the attach, with the pin left as it was
C19_Witness ==
    \E p, q \in Loaders :
        /\ Succeeded(p) /\ ld[p].pinned /\ pinPath = ld[p].map
        /\ attached[p] = pinPath
        /\ ld[q].pc = "returned" /\ ld[q].err = "attach" /\ ld[q].found
        /\ ld[q].ret = "NULL" /\ attached[q] = -1

(* ----------------------- properties: reporter --------------------------- *)
\* the reporter is inside the while (1) of stats_poll_map_reload
InLoop ==
    rp.pc \in {"loop", "open", "backoff", "collect_reload", "collect", "print"}

\* the reporter is inside stats_collect
Collecting == rp.pc \in {"collect_init", "collect_reload", "collect"}

\* C3 as claimed: an iteration that saw the id change prints no report.
C3_NoReportOnReload ==
    rp.pc = "print" /\ rp.reloaded =>
        StatsPrint(rp.record, rp.prev).rows = << >>

\* C3 as amended: an iteration that saw the id change takes a new baseline
\* from the re-opened table, and then collects again and prints a report
\* against that baseline before the iteration ends.
C3_ReloadBaselineThenReport ==
    /\ [](rp.reloaded /\ rp.pc \in {"collect", "print"} =>
            \A k \in Keys : rp.prev[k].gen = rp.map_id)
    /\ [][rp.reloaded /\ rp.pc # "loop" /\ rp'.pc = "loop" =>
            rp.pc = "print" /\ rp'.out = StatsPrint(rp.record, rp.prev)]_vars

\* the iteration that saw the id change is about to print rows
C3_Witness ==
    /\ rp.pc = "print" /\ rp.reloaded
    /\ StatsPrint(rp.record, rp.prev).rows # << >>

\* C4: the two snapshots of every printed report were collected from the
\* same table generation, whatever was unpinned and pinned in between.
C4_SameGeneration ==
    rp.pc = "print" =>
        \A k \in Keys : /\ rp.prev[k].gen = rp.record[k].gen
                        /\ rp.record[k].gen = rp.map_id

\* a report is printed after the reporter moved from table 1 to table 2
C4_Witness ==
    /\ rp.pc = "print" /\ rp.reloaded /\ rp.map_id = 2
    /\ rp.out.header

\* C5: in the poll loop a failed open is followed by the backoff and a new
\* open; the reporter never leaves the loop and never exits.
C5_OpenFailureRetried ==
    /\ [](InLoop => rp.exit = "running")
    /\ [][/\ rp.pc = "open" /\ OpenCheck(rp, pinPath).err # "EXIT_OK"
             /\ rp' # rp => rp'.pc = "backoff"
          /\ rp.pc = "backoff" /\ rp' # rp => rp'.pc = "open"
          /\ InLoop => InLoop']_vars

\* the reporter waits after an open that failed because nothing is pinned
C5_Witness ==
    rp.pc = "backoff" /\ pinPath = 0 /\ rp.map_id # 0

\* C8: a reporter that finds a table of another shape at start-up exits
\* with a nonzero code without having collected or printed anything.
C8_ShapeMismatchFailsFast ==
    [][/\ /\ rp.pc = "start" /\ rp' # rp /\ pinPath # 0
          /\ CheckMapFdInfo(tables[pinPath], MapExpect) # "EXIT_OK"
          => /\ rp'.pc = "exited"
             /\ rp'.exit \notin {"running", "EXIT_OK"}
             /\ rp'.record = ReporterInit.record
             /\ rp'.out = NoReport
       /\ rp.pc = "exited" => rp' = rp]_vars

\* the reporter has left because of the shape of the pinned table
C8_Witness ==
    /\ rp.pc = "exited" /\ rp.info # 0
    /\ tables[rp.info].value_size # MapExpect.value_size

\* the sum a lookup of key k in table t gives the reader
LookupValue(t, k) ==
    IF t.type = "PERCPU_ARRAY" THEN LookupPercpu(t, k) ELSE LookupArray(t, k)

\* C9: a key whose lookup fails keeps the counts its record had, and the
\* pass goes on with the next key.  (Every collected count is therefore
\* the table's or the record's own earlier one.)
C9_FailedLookupKeepsRecord ==
    [][Collecting /\ rp' # rp =>
         /\ rp'.record[rp.key].total \in
               {LookupValue(tables[rp.map_fd], rp.key), rp.record[rp.key].total}
         /\ rp'.key = (rp.key + 1) % XDP_ACTION_MAX]_vars

\* a table of the expected shape is pinned under id t
PinnedGood(t) ==
    pinPath = t /\ CheckMapFdInfo(tables[t], MapExpect) = "EXIT_OK"

\* the reporter is about to print a report taken from table t alone
ReportFrom(t) ==
    /\ rp.pc = "print"
    /\ \A k \in Keys : rp.record[k].gen = t /\ rp.prev[k].gen = t

\* C6: when the table a reporter polls is unpinned and a new table of the
\* expected shape is pinned and stays, the reporter, given its turns, stops
\* logging open errors and prints reports from the new table again and
\* again, in the same process.
C6_ResumesOnNewTable ==
    \A t \in 1..NumLoaders :
        (<>InLoop /\ <>[]PinnedGood(t)) =>
            (<>[](rp.pc # "backoff") /\ []<>ReportFrom(t))

\* the loaders are gone, the second table stays pinned, and the reporter
\* that printed from the first table is about to print from the second
C6_Witness ==
    /\ \A p \in SeqLoaders : ld[p].pc = "exited"
    /\ pinPath = 2 /\ ReportFrom(2) /\ rp.reloaded
    /\ rp.out.header

\* C12: no step of the reporter (open, check, collect, print, close,
\* sleep) changes the tables that exist, what is pinned at the pin path, or
\* the programs attached to the device.
C12_ReporterFrame ==
    [][rp' # rp => tables' = tables /\ pinPath' = pinPath
                   /\ attached' = attached]_vars

\* the reporter has opened, collected, printed and closed while a table
\* is pinned and a program is attached
C12_Witness ==
    /\ rp.pc = "open" /\ rp.out.header /\ rp.fds = EmptyBag
    /\ pinPath # 0 /\ \E p \in Loaders : attached[p] = pinPath

\* every count of the earlier snapshot is the count the polled table holds
\* now: as counters only grow, the table was not written to since the
\* earlier pass read it
Unmutated ==
    \A k \in Keys : LookupValue(tables[rp.map_fd], k) = rp.prev[k].total

C15_CloseBeforeOpen ==
    /\ [](BagCardinality(rp.fds) <= 1)
    /\ [][rp.pc = "open" /\ rp' # rp => ~BagIn(rp.map_fd, rp.fds)]_vars

\* C16 as claimed: a pass of stats_collect reads the clock once, before
\* its first lookup, and every record of the snapshot carries that reading.
C16_OneClockReadPerPass ==
    rp.pc = "print" =>
        \A k \in Keys : rp.record[k].timestamp = rp.record[0].timestamp

\* C16 as amended: a pass of stats_collect reads the clock once for every
\* key, right before the lookup of that key and after the lookups of the
\* keys before it; the record of a key carries the reading of its own
\* turn, so the timestamps of a snapshot never decrease from key to key
\* and need not be equal.
C16_ClockReadPerKey ==
    /\ [](rp.pc = "print" =>
            \A j, k \in Keys :
                j <= k => rp.record[j].timestamp <= rp.record[k].timestamp)
    /\ [][Collecting /\ rp' # rp =>
            /\ rp'.record[rp.key].timestamp = now
            /\ \A j \in Keys \ {rp.key} : rp'.record[j] = rp.record[j]]_vars

\* a snapshot whose last record was stamped later than its first
C16_Witness ==
    /\ rp.pc = "print"
    /\ rp.record[0].timestamp < rp.record[XDP_ACTION_MAX - 1].timestamp

\* the report stats_print is about to write
Report == StatsPrint(rp.record, rp.prev)

\* the keys whose period between the two snapshots is zero
ZeroPeriodKeys == {k \in Keys : CalcPeriod(rp.record[k], rp.prev[k]) = 0}

\* stats_print on its own has returned: rp.out is what it wrote, and the
\* two snapshots are as it saw them
Returned == rp.pc = "loop"

\* C17 as claimed: when the period between the two snapshots is zero
\* nothing is printed, neither header nor row, and no rate is a division
\* by a zero period.
C17_ZeroPeriodPrintsNothing ==
    Returned =>
        /\ ZeroPeriodKeys = Keys => rp.out = NoReport
        /\ \A n \in 1..Len(rp.out.rows) :
              rp.out.rows[n].pps.den # 0 /\ rp.out.rows[n].bps.den # 0

\* C17 as amended: stats_print always prints the header; it then prints
\* the rows of the keys in order and stops, without a row, at the first
\* key whose period is zero, so the rows of the keys before that one are
\* printed and those of the keys after it are not; no rate is a division
\* by a zero period.
C17_StopsAtZeroPeriod ==
    Returned =>
        /\ rp.out.header
        /\ Len(rp.out.rows) =
              Cardinality({k \in Keys : \A j \in ZeroPeriodKeys : k < j})
        /\ \A n \in 1..Len(rp.out.rows) :
              /\ rp.out.rows[n].key = n - 1
              /\ rp.out.rows[n].period > 0
              /\ rp.out.rows[n].pps.den # 0 /\ rp.out.rows[n].bps.den # 0

\* the first key has a period, the last has none: the header and at
\* least one row were written before stats_print stopped
C17_Witness ==
    /\ Returned
    /\ 0 \notin ZeroPeriodKeys /\ (XDP_ACTION_MAX - 1) \in ZeroPeriodKeys
    /\ rp.out.header /\ Len(rp.out.rows) > 0
    /\ Len(rp.out.rows) < XDP_ACTION_MAX

\* the row of key k in the report last printed is the n-th
RowOf(k, n) == n \in 1..Len(rp.out.rows) /\ rp.out.rows[n].key = k

\* stats_print has returned after writing the header
Printed == Returned /\ rp.out.header

C20_DeltasNeverWrap ==
    rp.pc = "print" =>
        \A n \in 1..Len(Report.rows) :
            LET cur == rp.record[Report.rows[n].key].total
                prv == rp.prev[Report.rows[n].key].total
            IN /\ cur.rx_packets >= prv.rx_packets
               /\ cur.rx_bytes >= prv.rx_bytes
               /\ Sub64(cur.rx_packets, prv.rx_packets)
                     = cur.rx_packets - prv.rx_packets
               /\ Sub64(cur.rx_bytes, prv.rx_bytes)
                     = cur.rx_bytes - prv.rx_bytes

(* ------------------ properties: loader runs in sequence ----------------- *)
\* C7: of loader runs that follow one another, a run that finds nothing
\* pinned pins its new table; a run that opens the pinned table neither
\* unpins nor pins, returns with the table reused, and leaves the id at the
\* pin path as it was, so that a reporter polling that id sees no change.
C7_SequentialReuse ==
    /\ [](\A p \in Loaders :
            /\ Succeeded(p) /\ ~ld[p].found /\ ld[p].err = "none"
               /\ ld[p].obj.hasMap
               => /\ ld[p].pinned /\ ~ld[p].map_reused
                  /\ pinPath = ld[p].map /\ attached[p] = ld[p].map
                  /\ ld[p].map = Len(tables)
            /\ ld[p].opened
               => /\ ld[p].pc \notin {"pin_access", "unpin", "pin"}
                  /\ ~ld[p].pinned
            /\ Succeeded(p) /\ ld[p].opened
               => ld[p].map_reused /\ ld[p].map = pinPath)
    /\ [][(\E p \in Loaders : ld[p].opened) =>
            /\ pinPath' = pinPath
            /\ Len(tables') = Len(tables)
            /\ InLoop /\ rp.map_id = pinPath /\ ~rp.reloaded
               => ~rp'.reloaded]_vars

\* a second run has reused the table a reporter keeps polling
C7_Witness ==
    /\ \E p \in Loaders : Succeeded(p) /\ ld[p].map_reused /\ ld[p].map = 1
    /\ rp.pc = "print" /\ rp.map_id = 1 /\ rp.out.header

\* the loaders before p have all run to their end
Sequential(p) == \A q \in Loaders : q < p => ld[q].pc = "exited"

\* the loaders alone, in any interleaving of their steps
LoadNext ==
    \E p \in Loaders : LoaderStep(p)

\* the reporter next to loader runs that follow one another
PollNext ==
    \/ \E p \in SeqLoaders : Sequential(p) /\ LoaderStep(p)
    \/ ReporterStep
    \/ \E p \in Loaders, k \in Keys : K_Count(p, k)
    \/ Tick

SpecLoad == Init /\ [][LoadNext]_vars

\* two of the loaders, in any interleaving of their steps
PairNext ==
    \E p \in SeqLoaders : LoaderStep(p)

SpecPair == Init /\ [][PairNext]_vars
SpecPoll == Init /\ [][PollNext]_vars

\* the processes alone: the reporter next to loader runs that follow one
\* another, with the counters and the clock at rest (no step of either
\* process depends on them but the rows stats_print writes)
GenNext ==
    \/ \E p \in SeqLoaders : Sequential(p) /\ LoaderStep(p)
    \/ ReporterStep

SpecGen == Init /\ [][GenNext]_vars

\* the processes and the clock, with the counters at rest
TimeNext ==
    \/ \E p \in SeqLoaders : Sequential(p) /\ LoaderStep(p)
    \/ ReporterStep
    \/ Tick

SpecTime == Init /\ [][TimeNext]_vars

(* --------------------- stats_print on its own --------------------------- *)
\* packet and byte counts given to stats_print: none, what a failed lookup
\* may leave, and counts of a busy interface
PktSamples == {0, JunkRec.rx_packets, 100, 1100}
ByteSamples == {0, JunkRec.rx_bytes, 400, 1000}

\* the clock readings of a pass never decrease from key to key
Stamps == {t \in [Keys -> 0..MaxPeriod] :
             \A j, k \in Keys : j <= k => t[j] <= t[k]}

\* the readings of two passes: the earlier pass ends before the later starts
StampPairs == {tt \in Stamps \X Stamps : tt[1][XDP_ACTION_MAX - 1] <= tt[2][0]}

\* a reporter about to call stats_print: one loader has pinned an array
\* map and left, the reporter has collected two snapshots from that map
InitPrint ==
    /\ \E pp \in PktSamples, cp \in PktSamples, pb \in ByteSamples,
          cb \in ByteSamples, tt \in StampPairs :
         LET prv == [rx_packets |-> pp, rx_bytes |-> pb]
             cur == [rx_packets |-> cp, rx_bytes |-> cb]
         IN /\ tables = <<[NewTable(ObjArray) EXCEPT !.val =
                             [k \in Keys |-> [c \in Cpus |->
                                IF c = 1 THEN cur ELSE ZeroRec]]]>>
            /\ rp = [ReporterInit EXCEPT
                       !.pc = "print", !.map_fd = 1, !.fds = SetToBag({1}),
                       !.info = 1, !.map_id = 1, !.map_id_prev = 1,
                       !.map_type = "ARRAY",
                       !.prev = [k \in Keys |->
                                   [timestamp |-> tt[1][k], total |-> prv,
                                    gen |-> 1]],
                       !.record = [k \in Keys |->
                                   [timestamp |-> tt[2][k], total |-> cur,
                                    gen |-> 1]]]
    /\ pinPath = 1
    /\ attached = [p \in Loaders |-> IF p = 1 THEN 1 ELSE -1]
    /\ now = MaxPeriod
    /\ counted = 0
    /\ ld = [p \in Loaders |->
              IF p = 1 THEN [LoaderInit EXCEPT !.pc = "exited",
                                               !.exit = "EXIT_OK"]
              ELSE LoaderInit]

PrintNext == R_Print

SpecPrint == InitPrint /\ [][PrintNext]_vars

\* the reporter process is scheduled again and again
FairGen == SpecGen /\ WF_vars(ReporterStep)
====
